---------------------------- MODULE Spec2Model ----------------------------
(***************************************************************************)
(* A model of game_review.py: the PyQt foreground (PGNAnalyzer and the     *)
(* board widget), its three kinds of background workers (the batch Worker, *)
(* the continuous AnalysisWorker, the one-off MoveTypeWorker), the queue   *)
(* of signals posted to the foreground thread, the engine sessions the     *)
(* workers open and quit, and the move classifier (categorize_move).       *)
(*                                                                         *)
(* Three specifications:                                                   *)
(*   Spec             the foreground and all its workers, interleaved;     *)
(*   SpecInteractive  Spec with a user who only plays moves on the board;  *)
(*   SpecClassify     categorize_move applied to bounded inputs.           *)
(***************************************************************************)
EXTENDS Integers, Sequences, FiniteSets, TLC

VARIABLES
    fgPc,            \* where the foreground thread is (idle = in the event loop)
    fgCtx,           \* the handler the foreground is executing
    board,           \* chessboard.board: the displayed position
    label,           \* move_eval_label: what set it and for which position
    token,           \* current_move_type_thread_id (0 = None)
    nMoves,          \* moves played on the board so far (uuid4 serial)
    nUser,           \* user actions so far (clicks, keys, closing the window)
    buttons,         \* whether the push buttons are enabled
    analysis_data,   \* PGNAnalyzer.analysis_data
    current_move_index,
    analysis_output, \* the text of analysis_output: position and depth shown
    queue,           \* signals posted to the foreground thread, oldest first
    aw,              \* self.analysis_worker and its thread
    mt,              \* self.move_type_worker and its thread
    bw,              \* self.worker (batch review) and its thread
    ghost,           \* history: what the properties read and no code does
    cls              \* the classifier's inputs and result (SpecClassify)

vars == <<fgPc, fgCtx, board, label, token, nMoves, nUser, buttons,
          analysis_data, current_move_index, analysis_output, queue, aw, mt,
          bw, ghost, cls>>

fgVars == <<fgPc, fgCtx, board, label, token, nMoves, nUser, buttons,
            analysis_data, current_move_index, analysis_output>>

(***************************************************************************)
(* Bounds of the model.                                                    *)
(***************************************************************************)
\* actions of the user: moves played, navigation steps, reviews started,
\* closing the window
MaxUser == 3
\* plies of a reviewed game
MaxPlies == 2
\* stands for depth = 30 of AnalysisWorker.run, reduced
MaxDepth == 2

(***************************************************************************)
(* Scores.  An engine answer is a record: kind "none" when the info holds  *)
(* no score, kind "error" when the request raised, and otherwise a         *)
(* PovScore: the side it is relative to (turn) and a Cp or Mate value.     *)
(***************************************************************************)
\* a move that is None (second_best_move when the engine gave one line)
NoMove == 0

\* piece_at(square) when the square is empty
NoPiece == [type |-> "none", color |-> "none"]

\* score(mate_score=100000) at every call site
mate_score == 100000

\* PovScore.white(): the relative score, negated when the point of view is Black
white(pov) ==
    IF pov.turn = "WHITE" THEN [kind |-> pov.kind, v |-> pov.v]
    ELSE CASE pov.kind = "cp" -> [kind |-> "cp", v |-> -pov.v]
           [] pov.kind = "mate" /\ pov.v = 0 -> [kind |-> "mategiven", v |-> 0]
           [] pov.kind = "mate" -> [kind |-> "mate", v |-> -pov.v]
           [] OTHER -> [kind |-> "mate", v |-> 0]

\* a score whose mates are not mapped: the number of moves stands for them
score_mate_as_moves(s, ms) ==
    IF s.kind = "cp" THEN s.v ELSE s.v

\* Score.score(mate_score=...): centipawns, or a mate as a large finite value
score(s, ms) ==
    CASE s.kind = "cp" -> s.v
      [] s.kind = "mategiven" -> ms
      [] s.kind = "mate" /\ s.v > 0 -> ms - s.v
      [] OTHER -> (-ms) - s.v

abs(x) == IF x < 0 THEN -x ELSE x

(***************************************************************************)
(* The classifier.  A board is what categorize_move reads of it: the piece *)
(* on the move's from-square and the piece on its to-square.  A move is    *)
(* its identity and the ranks of its two squares.                          *)
(***************************************************************************)
PieceTypes == {"PAWN", "KNIGHT", "BISHOP", "ROOK", "QUEEN", "KING"}

piece_value(t) ==
    CASE t = "PAWN" -> 1
      [] t = "KNIGHT" -> 3
      [] t = "BISHOP" -> 3
      [] t = "ROOK" -> 5
      [] t = "QUEEN" -> 9
      [] t = "KING" -> 0

is_intuitive(b, move) ==
    IF b.from_piece = NoPiece THEN FALSE
    ELSE IF b.from_piece.type \in {"KNIGHT", "BISHOP", "PAWN"}
         THEN IF b.from_piece.color = "WHITE" /\ move.to_rank > move.from_rank
              THEN TRUE
              ELSE IF b.from_piece.color = "BLACK" /\ move.to_rank < move.from_rank
                   THEN TRUE
                   ELSE FALSE
         ELSE FALSE

\* is_sacrifice with a piece of equal value counted as given up (>=)
is_sacrifice_or_equal(b, move) ==
    IF b.from_piece # NoPiece /\ b.to_piece # NoPiece
    THEN piece_value(b.from_piece.type) >= piece_value(b.to_piece.type)
    ELSE FALSE

is_sacrifice(b, move) ==
    IF b.from_piece # NoPiece /\ b.to_piece # NoPiece
    THEN piece_value(b.from_piece.type) > piece_value(b.to_piece.type)
    ELSE FALSE

\* Worker.get_move_score on the engine's answer for the position after the move
Worker_get_move_score(ans) ==
    IF ans.kind # "none" THEN score(white(ans), mate_score) ELSE 0

\* get_move_score that takes the score as the engine reports it, relative
\* to the side to move
MoveTypeWorker_get_move_score_relative(ans) ==
    IF ans.kind = "error" THEN 0
    ELSE IF ans.kind # "none"
         THEN score([kind |-> ans.kind, v |-> ans.v], mate_score) ELSE 0

\* MoveTypeWorker.get_move_score: an engine failure (kind "error") is caught and scores 0
MoveTypeWorker_get_move_score(ans) ==
    IF ans.kind = "error" THEN 0
    ELSE IF ans.kind # "none" THEN score(white(ans), mate_score) ELSE 0

\* categorize_move with the Excellent bound exclusive (< 30)
categorize_exclusive30(b, move, best_move, second_best_move, eval_diff, sBest, sSecond) ==
    IF move.id = best_move
    THEN LET score_diff == IF second_best_move # NoMove THEN sBest - sSecond ELSE 0
         IN  IF second_best_move # NoMove /\ score_diff > 200
             THEN IF is_intuitive(b, move)
                  THEN "Best"
                  ELSE IF is_sacrifice(b, move) THEN "Brilliant" ELSE "Great"
             ELSE "Best"
    ELSE IF move.id = second_best_move /\ abs(eval_diff) < 30 THEN "Excellent"
         ELSE IF abs(eval_diff) <= 50 THEN "Good"
         ELSE IF abs(eval_diff) <= 90 THEN "Inaccuracy"
         ELSE IF abs(eval_diff) <= 300 THEN "Mistake"
         ELSE "Blunder"

\* categorize_move with the sacrifice test taken before the intuitive test
categorize_sacrifice_first(b, move, best_move, second_best_move, eval_diff, sBest, sSecond) ==
    IF move.id = best_move
    THEN LET score_diff == IF second_best_move # NoMove THEN sBest - sSecond ELSE 0
         IN  IF second_best_move # NoMove /\ score_diff > 200
             THEN IF is_sacrifice(b, move)
                  THEN IF is_intuitive(b, move) THEN "Great" ELSE "Brilliant"
                  ELSE "Best"
             ELSE "Best"
    ELSE IF move.id = second_best_move /\ abs(eval_diff) <= 30 THEN "Excellent"
         ELSE IF abs(eval_diff) <= 50 THEN "Good"
         ELSE IF abs(eval_diff) <= 90 THEN "Inaccuracy"
         ELSE IF abs(eval_diff) <= 300 THEN "Mistake"
         ELSE "Blunder"

\* categorize_move with the gap test inclusive (score_diff >= 200)
categorize_gap_inclusive(b, move, best_move, second_best_move, eval_diff, sBest, sSecond) ==
    IF move.id = best_move
    THEN LET score_diff == IF second_best_move # NoMove THEN sBest - sSecond ELSE 0
         IN  IF second_best_move # NoMove /\ score_diff >= 200
             THEN IF is_intuitive(b, move)
                  THEN "Best"
                  ELSE IF is_sacrifice(b, move) THEN "Brilliant" ELSE "Great"
             ELSE "Best"
    ELSE IF move.id = second_best_move /\ abs(eval_diff) <= 30 THEN "Excellent"
         ELSE IF abs(eval_diff) <= 50 THEN "Good"
         ELSE IF abs(eval_diff) <= 90 THEN "Inaccuracy"
         ELSE IF abs(eval_diff) <= 300 THEN "Mistake"
         ELSE "Blunder"

\* The body of categorize_move, the same text in both classes; sBest and
\* sSecond are what get_move_score returned for best_move and second_best_move.
categorize(b, move, best_move, second_best_move, eval_diff, sBest, sSecond) ==
    IF move.id = best_move
    THEN LET score_diff == IF second_best_move # NoMove THEN sBest - sSecond ELSE 0
         IN  IF second_best_move # NoMove /\ score_diff > 200
             THEN IF is_intuitive(b, move)
                  THEN "Best"
                  ELSE IF is_sacrifice(b, move) THEN "Brilliant" ELSE "Great"
             ELSE "Best"
    ELSE IF move.id = second_best_move /\ abs(eval_diff) <= 30 THEN "Excellent"
         ELSE IF abs(eval_diff) <= 50 THEN "Good"
         ELSE IF abs(eval_diff) <= 90 THEN "Inaccuracy"
         ELSE IF abs(eval_diff) <= 300 THEN "Mistake"
         ELSE "Blunder"

\* Worker.categorize_move: get_move_score is called only when move == best_move
\* and a second-best move exists; an engine failure there is not caught.
Worker_categorize_move(b, move, best_move, second_best_move, eval_diff, aBest, aSecond) ==
    IF move.id = best_move /\ second_best_move # NoMove
       /\ "error" \in {aBest.kind, aSecond.kind}
    THEN "Exception"
    ELSE categorize(b, move, best_move, second_best_move, eval_diff,
                    IF aBest.kind = "error" THEN 0 ELSE Worker_get_move_score(aBest),
                    IF aSecond.kind = "error" THEN 0 ELSE Worker_get_move_score(aSecond))

MoveTypeWorker_categorize_move(b, move, best_move, second_best_move, eval_diff, aBest, aSecond) ==
    categorize(b, move, best_move, second_best_move, eval_diff,
               MoveTypeWorker_get_move_score(aBest),
               MoveTypeWorker_get_move_score(aSecond))

\* the engine requests categorize_move issues through get_move_score: none
\* unless the best move was played and a second-best move exists; then one
\* for each of the two moves, the second not reached when the first raises
Worker_requests(move, best_move, second_best_move, aBest) ==
    IF move.id = best_move /\ second_best_move # NoMove
    THEN IF aBest.kind = "error" THEN 1 ELSE 2
    ELSE 0

MoveTypeWorker_requests(move, best_move, second_best_move) ==
    IF move.id = best_move /\ second_best_move # NoMove THEN 2 ELSE 0

(***************************************************************************)
(* The foreground and its workers.                                         *)
(*                                                                         *)
(* Positions are numbers: 0 is the initial board, k in 1..MaxPlies is the  *)
(* board stored in the k-th record of a review, and MaxPlies + m is the    *)
(* board after the m-th move played with the mouse.                        *)
(*                                                                         *)
(* A signal emitted by a worker thread and connected to a foreground slot  *)
(* is a queued call: it is appended to queue and handled when the          *)
(* foreground is back in its event loop (fgPc = "idle").                   *)
(***************************************************************************)
Event(t, a, b) == [t |-> t, a |-> a, b |-> b]

\* an AnalysisWorker whose loop starts at depth 0
NewAnalysisWorker_from_zero(p) ==
    [exists |-> TRUE, pos |-> p, pc |-> "ready", depth |-> 0, is_running |-> TRUE,
     engine |-> "None", session |-> "none", quits |-> 0, raised |-> FALSE]

\* AnalysisWorker.__init__: the worker update_analysis creates for position p;
\* depth is current_depth, which range(1, depth + 1) starts at 1
NewAnalysisWorker(p) ==
    [exists |-> TRUE, pos |-> p, pc |-> "ready", depth |-> 1, is_running |-> TRUE,
     engine |-> "None", session |-> "none", quits |-> 0, raised |-> FALSE]

NoAnalysisWorker ==
    [exists |-> FALSE, pos |-> 0, pc |-> "none", depth |-> 0, is_running |-> FALSE,
     engine |-> "None", session |-> "none", quits |-> 0, raised |-> FALSE]

\* MoveTypeWorker.__init__ and the thread evaluate_current_move starts for it
NewMoveTypeWorker(id, p) ==
    [thread |-> TRUE, pc |-> "ready", token |-> id, pos |-> p, connected |-> TRUE,
     session |-> "none"]

\* self.move_type_worker = None; self.move_type_thread = None
NoMoveTypeWorker ==
    [thread |-> FALSE, pc |-> "none", token |-> 0, pos |-> 0, connected |-> FALSE,
     session |-> "none"]

\* Worker.__init__: the engine is opened in the constructor
NewWorker ==
    [exists |-> TRUE, pc |-> "parse", session |-> "open", quits |-> 0,
     outcome |-> "pending", n |-> 0, k |-> 0, has_data |-> FALSE, data |-> <<>>,
     finished |-> FALSE, failed |-> FALSE]

NoWorker ==
    [exists |-> FALSE, pc |-> "none", session |-> "none", quits |-> 0,
     outcome |-> "pending", n |-> 0, k |-> 0, has_data |-> FALSE, data |-> <<>>,
     finished |-> FALSE, failed |-> FALSE]

\* an engine answer: no score in the info, a raised request, or a PovScore
NoScore == [kind |-> "none", turn |-> "WHITE", v |-> 0]
EngineError == [kind |-> "error", turn |-> "WHITE", v |-> 0]
PovScore(turn, kind, v) == [kind |-> kind, turn |-> turn, v |-> v]

\* a score that may be None (best_score, move_score)
None == [some |-> FALSE, v |-> 0]
Some(v) == [some |-> TRUE, v |-> v]

\* the evaluation of one played move, before it has started
NoRun ==
    [pc |-> "none", turn |-> "WHITE", nvar |-> 0, aLine |-> NoScore,
     aAfter |-> NoScore, best_score |-> None, move_score |-> None, engines |-> 0]

NoClassification ==
    [done |-> FALSE, who |-> "none",
     b |-> [from_piece |-> NoPiece, to_piece |-> NoPiece],
     move |-> [id |-> 0, from_rank |-> 0, to_rank |-> 0],
     best_move |-> 0, second_best_move |-> NoMove, eval_diff |-> 0,
     aBest |-> NoScore, aSecond |-> NoScore, label |-> "",
     requests |-> 0, again |-> "", run |-> NoRun]

Init ==
    /\ fgPc = "idle"
    /\ fgCtx = "none"
    /\ board = 0
    /\ label = [src |-> "reset", pos |-> 0, token |-> 0]
    /\ token = 0
    /\ nMoves = 0
    /\ nUser = 0
    /\ buttons = TRUE
    /\ analysis_data = <<>>
    /\ current_move_index = 0
    /\ analysis_output = [pos |-> 0, depth |-> 0]
    /\ queue = <<>>
    /\ aw = NoAnalysisWorker
    /\ mt = NoMoveTypeWorker
    /\ bw = NoWorker
    /\ ghost = [au_stale |-> FALSE, mt_dropped |-> FALSE, presented |-> "nothing",
                orphans |-> 0, shown_by |-> "start"]
    /\ cls = NoClassification

\* on_move_type_evaluated without its check: every delivered result is taken
TokenMatches_unchecked(thread_id, current) == TRUE

\* the check of on_move_type_evaluated: is the delivered thread id the current one
TokenMatches(thread_id, current) == thread_id = current

\* the queue without the pending finished signals of the MoveTypeWorker
WithoutMoveType(q) == SelectSeq(q, LAMBDA e : e.t # "mt")

\* the queue without the pending analysis_updated signals
WithoutUpdates(q) == SelectSeq(q, LAMBDA e : e.t # "au")

(***************************************************************************)
(* ChessBoardWidget.mousePressEvent, the click that plays a legal move:    *)
(* board.push, reset_move_eval_label, stop_move_type_evaluation up to its  *)
(* wait().  finished.disconnect() cuts the connection; whether a finished  *)
(* signal already posted is still delivered is left open (drop).           *)
(***************************************************************************)
MousePress ==
    /\ fgPc = "idle"
    /\ nUser < MaxUser
    /\ nUser' = nUser + 1
    /\ nMoves' = nMoves + 1
    /\ board' = MaxPlies + nMoves + 1
    /\ label' = [src |-> "reset", pos |-> 0, token |-> 0]
    /\ fgCtx' = "mouse"
    /\ IF mt.thread
       THEN /\ \E drop \in BOOLEAN :
                 queue' = IF drop THEN WithoutMoveType(queue) ELSE queue
            /\ mt' = [mt EXCEPT !.connected = FALSE]
            /\ fgPc' = "smt_wait"
       ELSE /\ UNCHANGED <<queue, mt>>
            /\ fgPc' = "ua"
    /\ ghost' = [ghost EXCEPT !.shown_by = "mouse"]
    /\ UNCHANGED <<token, buttons, analysis_data,
                   current_move_index, analysis_output, aw, bw, cls>>

\* stop_move_type_evaluation: move_type_thread.wait() returns, then the
\* worker and the thread are set to None
StopMoveTypeWaitReturn ==
    /\ fgPc = "smt_wait"
    /\ mt.pc = "done"
    /\ mt' = NoMoveTypeWorker
    /\ fgPc' = "ua"
    /\ UNCHANGED <<fgCtx, board, label, token, nMoves, nUser, buttons,
                   analysis_data, current_move_index, analysis_output, queue,
                   aw, bw, ghost, cls>>

(***************************************************************************)
(* update_analysis, and AnalysisWorker.stop run by the foreground thread   *)
(* one statement at a time.  closeEvent runs the same stop / quit / wait.  *)
(***************************************************************************)
\* the test of update_analysis, then stop(): self.is_running = False
UpdateAnalysisEnter ==
    /\ fgPc = "ua"
    /\ IF aw.exists
       THEN /\ aw' = [aw EXCEPT !.is_running = FALSE]
            /\ fgPc' = "stop_test"
       ELSE /\ aw' = aw
            /\ fgPc' = IF fgCtx = "close" THEN "ce_mt" ELSE "ua_start"
    /\ UNCHANGED <<fgCtx, board, label, token, nMoves, nUser, buttons,
                   analysis_data, current_move_index, analysis_output, queue,
                   mt, bw, ghost, cls>>

\* stop(): if self.engine:
StopTest ==
    /\ fgPc = "stop_test"
    /\ fgPc' = IF aw.engine # "None" THEN "stop_quit" ELSE "ua_wait"
    /\ UNCHANGED <<fgCtx, board, label, token, nMoves, nUser, buttons,
                   analysis_data, current_move_index, analysis_output, queue,
                   aw, mt, bw, ghost, cls>>

\* stop(): self.engine.quit(); an AttributeError when the worker thread has
\* set self.engine to None since the test (closeEvent swallows it)
StopQuit ==
    /\ fgPc = "stop_quit"
    /\ IF aw.engine = "None"
       THEN /\ aw' = aw
            /\ fgPc' = IF fgCtx = "close" THEN "closed" ELSE "crashed"
       ELSE /\ aw' = [aw EXCEPT !.session = "closed", !.quits = @ + 1]
            /\ fgPc' = "stop_clear"
    /\ UNCHANGED <<fgCtx, board, label, token, nMoves, nUser, buttons,
                   analysis_data, current_move_index, analysis_output, queue,
                   mt, bw, ghost, cls>>

\* stop(): self.engine = None; then analysis_thread.quit() and wait() begins
StopClear ==
    /\ fgPc = "stop_clear"
    /\ aw' = [aw EXCEPT !.engine = "None"]
    /\ fgPc' = "ua_wait"
    /\ UNCHANGED <<fgCtx, board, label, token, nMoves, nUser, buttons,
                   analysis_data, current_move_index, analysis_output, queue,
                   mt, bw, ghost, cls>>

\* a wait() that returns at once
ThreadFinished_without_waiting(w) == TRUE

\* what analysis_thread.wait() waits for after quit(): the thread has left
\* its event loop, which it does once the run of worker w has returned
ThreadFinished(w) == w.pc = "done"

\* analysis_thread.wait() returns once the worker's run has ended; then
\* deleteLater().  Whether an analysis_updated signal of the deleted worker
\* that is already posted is still delivered is left open (drop).
UpdateAnalysisWaitReturn ==
    /\ fgPc = "ua_wait"
    /\ ThreadFinished(aw)
    /\ IF fgCtx = "close"
       THEN /\ fgPc' = "ce_mt"
            /\ UNCHANGED queue
       ELSE /\ fgPc' = "ua_start"
            /\ \E drop \in BOOLEAN :
                 queue' = IF drop THEN WithoutUpdates(queue) ELSE queue
    /\ UNCHANGED <<fgCtx, board, label, token, nMoves, nUser, buttons,
                   analysis_data, current_move_index, analysis_output,
                   aw, mt, bw, ghost, cls>>

\* update_analysis: the new AnalysisWorker and its thread are created and
\* started; in mousePressEvent evaluate_current_move follows: a fresh thread
\* id becomes current and a MoveTypeWorker is started with it
UpdateAnalysisStart ==
    /\ fgPc = "ua_start"
    /\ aw' = NewAnalysisWorker(board)
    /\ IF fgCtx = "mouse"
       THEN /\ token' = nMoves
            /\ mt' = NewMoveTypeWorker(nMoves, board)
       ELSE UNCHANGED <<token, mt>>
    /\ fgPc' = "idle"
    /\ fgCtx' = "none"
    /\ UNCHANGED <<board, label, nMoves, nUser, buttons,
                   analysis_data, current_move_index, analysis_output, queue,
                   bw, ghost, cls>>

(***************************************************************************)
(* Navigation.  update_display shows the board and the label of the record *)
(* at current_move_index (0-based) and calls update_analysis.  At the      *)
(* first record previous_move, and at the last next_move, do nothing.      *)
(***************************************************************************)
update_display(index) ==
    /\ board' = analysis_data'[index + 1].ply
    /\ label' = [src |-> "review", pos |-> analysis_data'[index + 1].ply, token |-> 0]
    /\ fgPc' = "ua"

previous_move ==
    /\ fgPc = "idle"
    /\ nUser < MaxUser
    /\ current_move_index > 0
    /\ current_move_index' = current_move_index - 1
    /\ analysis_data' = analysis_data
    /\ update_display(current_move_index')
    /\ fgCtx' = "nav"
    /\ nUser' = nUser + 1
    /\ ghost' = [ghost EXCEPT !.shown_by = "nav"]
    /\ UNCHANGED <<token, nMoves, buttons, analysis_output, queue,
                   aw, mt, bw, cls>>

next_move ==
    /\ fgPc = "idle"
    /\ nUser < MaxUser
    /\ current_move_index < Len(analysis_data) - 1
    /\ current_move_index' = current_move_index + 1
    /\ analysis_data' = analysis_data
    /\ update_display(current_move_index')
    /\ fgCtx' = "nav"
    /\ nUser' = nUser + 1
    /\ ghost' = [ghost EXCEPT !.shown_by = "nav"]
    /\ UNCHANGED <<token, nMoves, buttons, analysis_output, queue,
                   aw, mt, bw, cls>>

(***************************************************************************)
(* The batch review.  start_analysis (the button, so only while the        *)
(* buttons are enabled, with a non-blank PGN text) disables the buttons,   *)
(* clears analysis_output, constructs the Worker, which opens its engine,  *)
(* and starts its thread.  A Worker it replaces is no longer referenced.   *)
(***************************************************************************)
start_analysis ==
    /\ fgPc = "idle"
    /\ buttons
    /\ nUser < MaxUser
    /\ nUser' = nUser + 1
    /\ buttons' = FALSE
    /\ analysis_output' = [pos |-> 0, depth |-> 0]
    /\ bw' = NewWorker
    /\ ghost' = [ghost EXCEPT !.presented = "nothing",
                              !.orphans = @ + (IF bw.session = "open" THEN 1 ELSE 0)]
    /\ UNCHANGED <<fgPc, fgCtx, board, label, token, nMoves, analysis_data,
                   current_move_index, queue, aw, mt, cls>>

\* Worker.run up to the loop.  read_game returns None ("none"), raises
\* ("error"), or returns a game of n moves; the first two emit a progress
\* message and finished and return with the engine still open.
WorkerParse ==
    /\ bw.pc = "parse"
    /\ \/ \E o \in {"none", "error"} :
            /\ bw' = [bw EXCEPT !.pc = "done", !.outcome = o, !.finished = TRUE]
            /\ queue' = queue \o <<Event("progress", 0, 0), Event("fin", 0, 0)>>
       \/ \E n \in 0..MaxPlies :
            /\ bw' = [bw EXCEPT !.pc = "loop", !.outcome = "game", !.n = n,
                                !.has_data = TRUE, !.data = <<>>]
            /\ queue' = queue
    /\ UNCHANGED <<fgVars, aw, mt, ghost, cls>>

\* the record of a ply put in front of the records of the earlier plies
AppendRecord_in_front(data, k) == <<[ply |-> k]>> \o data

\* self.analysis_data.append({...}): the record of ply k, after the earlier ones
AppendRecord(data, k) == Append(data, [ply |-> k])

\* one iteration of the loop of Worker.run: the engine requests of the ply
\* succeed, the record is appended and progress is emitted
WorkerPly ==
    /\ bw.pc = "loop"
    /\ bw.k < bw.n
    /\ bw.session = "open"
    /\ bw' = [bw EXCEPT !.k = @ + 1, !.data = AppendRecord(@, bw.k + 1)]
    /\ queue' = Append(queue, Event("progress", 0, 0))
    /\ UNCHANGED <<fgVars, aw, mt, ghost, cls>>

\* an engine request of the ply raises (always so once the engine has been
\* quit under the worker): nothing in run catches it and the thread ends
WorkerPlyFails ==
    /\ bw.pc = "loop"
    /\ bw.k < bw.n
    /\ bw' = [bw EXCEPT !.pc = "dead", !.failed = TRUE]
    /\ UNCHANGED <<fgVars, queue, aw, mt, ghost, cls>>

\* after the loop: self.engine.quit() and self.finished.emit(); quit() on an
\* engine closeEvent has already quit either does nothing or raises
WorkerFinish ==
    /\ bw.pc = "loop"
    /\ bw.k = bw.n
    /\ \/ /\ bw' = [bw EXCEPT !.pc = "done", !.session = "closed", !.quits = @ + 1,
                                !.finished = TRUE]
          /\ queue' = Append(queue, Event("fin", 0, 0))
       \/ /\ bw.session = "closed"
          /\ bw' = [bw EXCEPT !.pc = "dead", !.quits = @ + 1, !.failed = TRUE]
          /\ queue' = queue
    /\ UNCHANGED <<fgVars, aw, mt, ghost, cls>>

\* handle_progress: the message is ignored
handle_progress ==
    /\ fgPc = "idle"
    /\ queue # <<>>
    /\ Head(queue).t = "progress"
    /\ queue' = Tail(queue)
    /\ UNCHANGED <<fgVars, aw, mt, bw, ghost, cls>>

\* the index of the record shown before the review, kept
first_index_kept(index) == index

\* self.current_move_index = 0 in analysis_finished, whatever it was
first_index(index) == 0

\* analysis_finished: buttons on, the "done" message box (taken to return at
\* once), analysis_data taken from the worker (the class attribute [] when
\* run never assigned it), index 0, and update_display when there is a record
analysis_finished ==
    /\ fgPc = "idle"
    /\ queue # <<>>
    /\ Head(queue).t = "fin"
    /\ queue' = Tail(queue)
    /\ buttons' = TRUE
    /\ analysis_data' = IF bw.has_data THEN bw.data ELSE <<>>
    /\ ghost' = [ghost EXCEPT !.presented = "done",
                              !.shown_by = IF analysis_data' # <<>>
                                           THEN "finished" ELSE @]
    /\ current_move_index' = first_index(current_move_index)
    /\ IF analysis_data' # <<>>
       THEN /\ update_display(0)
            /\ fgCtx' = "finished"
       ELSE UNCHANGED <<board, label, fgPc, fgCtx>>
    /\ UNCHANGED <<token, nMoves, nUser, analysis_output, aw, mt, bw, cls>>

\* update_analysis_output: the text is set to the delivered update
update_analysis_output ==
    /\ fgPc = "idle"
    /\ queue # <<>>
    /\ Head(queue).t = "au"
    /\ queue' = Tail(queue)
    /\ analysis_output' = [pos |-> Head(queue).a, depth |-> Head(queue).b]
    /\ ghost' = [ghost EXCEPT !.au_stale = @ \/ Head(queue).a # aw.pos]
    /\ UNCHANGED <<fgPc, fgCtx, board, label, token, nMoves, nUser,
                   buttons, analysis_data, current_move_index, aw, mt, bw, cls>>

\* on_move_type_evaluated: a result whose thread id is not the current one is
\* ignored; otherwise the label is set and the thread is quit and waited for
on_move_type_evaluated ==
    /\ fgPc = "idle"
    /\ queue # <<>>
    /\ Head(queue).t = "mt"
    /\ queue' = Tail(queue)
    /\ IF ~TokenMatches(Head(queue).a, token)
       THEN /\ ghost' = [ghost EXCEPT !.mt_dropped = TRUE]
            /\ UNCHANGED <<label, fgPc, fgCtx>>
       ELSE /\ label' = [src |-> "classify", pos |-> Head(queue).b,
                         token |-> Head(queue).a]
            /\ fgPc' = IF mt.thread THEN "omt_wait" ELSE "crashed"
            /\ fgCtx' = "mt"
            /\ ghost' = ghost
    /\ UNCHANGED <<board, token, nMoves, nUser, buttons, analysis_data,
                   current_move_index, analysis_output, aw, mt, bw, cls>>

\* on_move_type_evaluated: move_type_thread.wait() returns; worker and thread
\* are set to None
OnMoveTypeWaitReturn ==
    /\ fgPc = "omt_wait"
    /\ mt.pc = "done"
    /\ mt' = NoMoveTypeWorker
    /\ fgPc' = "idle"
    /\ fgCtx' = "none"
    /\ UNCHANGED <<board, label, token, nMoves, nUser, buttons,
                   analysis_data, current_move_index, analysis_output, queue,
                   aw, bw, ghost, cls>>

(***************************************************************************)
(* closeEvent.  Everything is inside try / except: pass, so the first call *)
(* that raises skips the rest.  The branch on evaluate_thread is never     *)
(* taken: evaluate_thread is None throughout.                              *)
(***************************************************************************)
\* closeEvent: self.worker.engine.quit() when a Worker exists; quit() on an
\* engine that was already quit either does nothing or raises
closeEvent ==
    /\ fgPc = "idle"
    /\ nUser < MaxUser
    /\ nUser' = nUser + 1
    /\ fgCtx' = "close"
    /\ IF bw.exists
       THEN \/ /\ bw' = [bw EXCEPT !.session = "closed", !.quits = @ + 1]
               /\ fgPc' = "ua"
            \/ /\ bw.session = "closed"
               /\ bw' = [bw EXCEPT !.quits = @ + 1]
               /\ fgPc' = "closed"
       ELSE /\ bw' = bw
            /\ fgPc' = "ua"
    /\ UNCHANGED <<board, label, token, nMoves, buttons,
                   analysis_data, current_move_index, analysis_output, queue,
                   aw, mt, ghost, cls>>

\* closeEvent: move_type_worker.stop() (its engine attribute is always None),
\* move_type_thread.quit() and wait(), when move_type_thread is not None
CloseMoveType ==
    /\ fgPc = "ce_mt"
    /\ fgPc' = IF mt.thread THEN "ce_mt_wait" ELSE "closed"
    /\ UNCHANGED <<fgCtx, board, label, token, nMoves, nUser, buttons,
                   analysis_data, current_move_index, analysis_output, queue,
                   aw, mt, bw, ghost, cls>>

\* closeEvent: move_type_thread.wait() returns; event.accept()
CloseMoveTypeWaitReturn ==
    /\ fgPc = "ce_mt_wait"
    /\ mt.pc = "done"
    /\ fgPc' = "closed"
    /\ UNCHANGED <<fgCtx, board, label, token, nMoves, nUser, buttons,
                   analysis_data, current_move_index, analysis_output, queue,
                   aw, mt, bw, ghost, cls>>

(***************************************************************************)
(* AnalysisWorker.run on its thread, one step per statement that reads or  *)
(* writes what the foreground's stop() touches.                            *)
(***************************************************************************)
\* self.engine = popen_uci(...)
AnalysisOpen ==
    /\ aw.pc = "ready"
    /\ aw' = [aw EXCEPT !.pc = "head", !.engine = "set", !.session = "open"]
    /\ UNCHANGED <<fgVars, queue, mt, bw, ghost, cls>>

\* for current_depth in range(1, depth + 1): if not self.is_running: break
AnalysisLoopHead ==
    /\ aw.pc = "head"
    /\ aw' = [aw EXCEPT !.pc = IF aw.depth > MaxDepth \/ ~aw.is_running
                               THEN "finally" ELSE "call"]
    /\ UNCHANGED <<fgVars, queue, mt, bw, ghost, cls>>

\* self.engine.analyse(...) is called: it raises when self.engine is None or
\* the engine has been quit (caught by except Exception: break)
AnalysisCall ==
    /\ aw.pc = "call"
    /\ aw' = [aw EXCEPT !.pc = IF aw.engine = "None" \/ aw.session # "open"
                               THEN "finally" ELSE "inflight"]
    /\ UNCHANGED <<fgVars, queue, mt, bw, ghost, cls>>

\* the request returns an info
AnalysisReturn ==
    /\ aw.pc = "inflight"
    /\ aw.session = "open"
    /\ aw' = [aw EXCEPT !.pc = "emit"]
    /\ UNCHANGED <<fgVars, queue, mt, bw, ghost, cls>>

\* the request raises: the engine failed, or it was quit under the request
AnalysisFails ==
    /\ aw.pc = "inflight"
    /\ aw' = [aw EXCEPT !.pc = "finally"]
    /\ UNCHANGED <<fgVars, queue, mt, bw, ghost, cls>>

\* self.analysis_updated.emit(output) for the depth just analysed
AnalysisEmit ==
    /\ aw.pc = "emit"
    /\ queue' = Append(queue, Event("au", aw.pos, aw.depth))
    /\ aw' = [aw EXCEPT !.pc = "head", !.depth = @ + 1]
    /\ UNCHANGED <<fgVars, mt, bw, ghost, cls>>

\* finally: if self.engine:
AnalysisFinallyTest ==
    /\ aw.pc = "finally"
    /\ aw' = [aw EXCEPT !.pc = IF aw.engine # "None" THEN "fin_quit" ELSE "done"]
    /\ UNCHANGED <<fgVars, queue, mt, bw, ghost, cls>>

\* finally: self.engine.quit(); an AttributeError ends run when stop() has
\* set self.engine to None since the test
AnalysisFinallyQuit ==
    /\ aw.pc = "fin_quit"
    /\ IF aw.engine = "None"
       THEN aw' = [aw EXCEPT !.pc = "done", !.raised = TRUE]
       ELSE aw' = [aw EXCEPT !.pc = "fin_clear", !.session = "closed", !.quits = @ + 1]
    /\ UNCHANGED <<fgVars, queue, mt, bw, ghost, cls>>

\* finally: self.engine = None; run returns
AnalysisFinallyClear ==
    /\ aw.pc = "fin_clear"
    /\ aw' = [aw EXCEPT !.pc = "done", !.engine = "None"]
    /\ UNCHANGED <<fgVars, queue, mt, bw, ghost, cls>>

(***************************************************************************)
(* MoveTypeWorker.run on its thread.                                       *)
(***************************************************************************)
\* with popen_uci(...) as engine:
MoveTypeOpen ==
    /\ mt.pc = "ready"
    /\ mt' = [mt EXCEPT !.pc = "busy", !.session = "open"]
    /\ UNCHANGED <<fgVars, queue, aw, bw, ghost, cls>>

\* the requests succeed and self.finished.emit(eval_type, self.thread_id):
\* posted to the foreground while the signal is connected
MoveTypeEmit ==
    /\ mt.pc = "busy"
    /\ mt' = [mt EXCEPT !.pc = "closing"]
    /\ queue' = IF mt.connected
                THEN Append(queue, Event("mt", mt.token, mt.pos))
                ELSE queue
    /\ UNCHANGED <<fgVars, aw, bw, ghost, cls>>

\* a request raises: the with block quits the engine and run ends, no signal
MoveTypeFails ==
    /\ mt.pc = "busy"
    /\ mt' = [mt EXCEPT !.pc = "done", !.session = "closed"]
    /\ UNCHANGED <<fgVars, queue, aw, bw, ghost, cls>>

\* the with block ends: the engine is quit; run returns
MoveTypeClose ==
    /\ mt.pc = "closing"
    /\ mt' = [mt EXCEPT !.pc = "done", !.session = "closed"]
    /\ UNCHANGED <<fgVars, queue, aw, bw, ghost, cls>>

Next ==
    \/ MousePress
    \/ StopMoveTypeWaitReturn
    \/ UpdateAnalysisEnter
    \/ StopTest
    \/ StopQuit
    \/ StopClear
    \/ UpdateAnalysisWaitReturn
    \/ UpdateAnalysisStart
    \/ previous_move
    \/ next_move
    \/ start_analysis
    \/ WorkerParse
    \/ WorkerPly
    \/ WorkerPlyFails
    \/ WorkerFinish
    \/ handle_progress
    \/ analysis_finished
    \/ update_analysis_output
    \/ on_move_type_evaluated
    \/ OnMoveTypeWaitReturn
    \/ closeEvent
    \/ CloseMoveType
    \/ CloseMoveTypeWaitReturn
    \/ AnalysisOpen
    \/ AnalysisLoopHead
    \/ AnalysisCall
    \/ AnalysisReturn
    \/ AnalysisFails
    \/ AnalysisEmit
    \/ AnalysisFinallyTest
    \/ AnalysisFinallyQuit
    \/ AnalysisFinallyClear
    \/ MoveTypeOpen
    \/ MoveTypeEmit
    \/ MoveTypeFails
    \/ MoveTypeClose

Spec == Init /\ [][Next]_vars

(***************************************************************************)
(* SpecClassify: categorize_move of either class applied once to inputs    *)
(* drawn from bounded sets.  The inputs vary the evaluation difference     *)
(* around the thresholds, the pieces on the move's squares, and the scores *)
(* get_move_score obtains, one group at a time over a few fixed values of  *)
(* the others.                                                             *)
(***************************************************************************)
Colors == {"WHITE", "BLACK"}
Pieces == {NoPiece} \cup [type : PieceTypes, color : Colors]

\* ranks of the squares of the classified move
MaxRank == 2
Ranks == 1..MaxRank

\* move identities; the lines of a multipv answer start with different moves
MaxMoveId == 3
MoveLines ==
    {l \in [move : 1..2, best : 1..2, second : {NoMove} \cup 1..MaxMoveId] :
        l.second # l.best}

Thresholds == {0, 29, 30, 31, 50, 51, 90, 91, 300, 301}
Deltas == Thresholds \cup {-d : d \in Thresholds}

Answers ==
    {NoScore, EngineError}
    \cup {PovScore(t, "cp", v) : t \in Colors, v \in {-201, -200, 0, 200, 201}}
    \cup {PovScore(t, "mate", v) : t \in Colors, v \in {-2, 0, 3}}

Boards == [from_piece : Pieces, to_piece : Pieces]
FewBoards ==
    {[from_piece |-> [type |-> "QUEEN", color |-> "WHITE"],
      to_piece |-> [type |-> "PAWN", color |-> "BLACK"]],
     [from_piece |-> [type |-> "PAWN", color |-> "BLACK"], to_piece |-> NoPiece]}
FewAnswers ==
    {<<PovScore("BLACK", "cp", -201), NoScore>>,
     <<PovScore("WHITE", "cp", 200), PovScore("WHITE", "cp", 0)>>,
     <<PovScore("WHITE", "cp", 201), EngineError>>}

ClassifyInputs ==
    [b : FewBoards, l : MoveLines, fr : {1}, tr : Ranks, d : Deltas, a : FewAnswers]
    \cup [b : Boards, l : MoveLines, fr : Ranks, tr : Ranks, d : {0}, a : FewAnswers]
    \cup [b : FewBoards, l : MoveLines, fr : {1}, tr : Ranks, d : {0, 301},
          a : Answers \X Answers]

Classified(who, i, lbl) ==
    [done |-> TRUE, who |-> who, b |-> i.b,
     move |-> [id |-> i.l.move, from_rank |-> i.fr, to_rank |-> i.tr],
     best_move |-> i.l.best, second_best_move |-> i.l.second, eval_diff |-> i.d,
     aBest |-> i.a[1], aSecond |-> i.a[2], label |-> lbl,
     requests |-> IF who = "Worker"
                  THEN Worker_requests([id |-> i.l.move], i.l.best, i.l.second, i.a[1])
                  ELSE MoveTypeWorker_requests([id |-> i.l.move], i.l.best, i.l.second),
     again |-> "", run |-> NoRun]

\* Worker.categorize_move on one input
ClassifyBatch ==
    /\ ~cls.done
    /\ \E i \in ClassifyInputs :
         cls' = Classified("Worker", i,
                  Worker_categorize_move(i.b,
                      [id |-> i.l.move, from_rank |-> i.fr, to_rank |-> i.tr],
                      i.l.best, i.l.second, i.d, i.a[1], i.a[2]))
    /\ UNCHANGED <<fgVars, queue, aw, mt, bw, ghost>>

\* MoveTypeWorker.categorize_move on one input
ClassifyInteractive ==
    /\ ~cls.done
    /\ \E i \in ClassifyInputs :
         cls' = Classified("MoveTypeWorker", i,
                  MoveTypeWorker_categorize_move(i.b,
                      [id |-> i.l.move, from_rank |-> i.fr, to_rank |-> i.tr],
                      i.l.best, i.l.second, i.d, i.a[1], i.a[2]))
    /\ UNCHANGED <<fgVars, queue, aw, mt, bw, ghost>>

\* categorize_move called once more with the same arguments; the engine
\* answers what it answers at that moment
ClassifyAgain ==
    /\ cls.done
    /\ cls.again = ""
    /\ \E a \in FewAnswers :
         cls' = [cls EXCEPT !.again =
                   IF cls.who = "Worker"
                   THEN Worker_categorize_move(cls.b, cls.move, cls.best_move,
                            cls.second_best_move, cls.eval_diff, a[1], a[2])
                   ELSE MoveTypeWorker_categorize_move(cls.b, cls.move, cls.best_move,
                            cls.second_best_move, cls.eval_diff, a[1], a[2])]
    /\ UNCHANGED <<fgVars, queue, aw, mt, bw, ghost>>

NextClassify == ClassifyBatch \/ ClassifyInteractive \/ ClassifyAgain

SpecClassify == Init /\ [][NextClassify]_vars

(***************************************************************************)
(* SpecEvaluate: the evaluation of one played move, step by step, as one   *)
(* iteration of the loop of Worker.run and as MoveTypeWorker.run do it:    *)
(* the multipv request on the position before the move, the request on the *)
(* position after it, eval_diff, categorize_move with its get_move_score   *)
(* requests, and the result.  The engine answers are drawn when the        *)
(* evaluation starts.  A score the engine reports is relative to the side  *)
(* to move of the position analysed: the mover for the position before the *)
(* move, the other side for every position after a move.                   *)
(***************************************************************************)
\* centipawn scores an engine reports stay within this magnitude
MaxCp == 2000
\* mates are at most this many moves away
MaxMate == 2

Other(turn) == IF turn = "WHITE" THEN "BLACK" ELSE "WHITE"

ScoreValues ==
    [kind : {"cp"}, v : {-MaxCp, -250, 0, 250, MaxCp}]
    \cup [kind : {"mate"}, v : (-MaxMate)..MaxMate]

\* what the two requests of get_move_score answer, for the positions after
\* best_move and after second_best_move
ScorePairs ==
    {<<[kind |-> "cp", v |-> 250], [kind |-> "cp", v |-> 0]>>,
     <<[kind |-> "cp", v |-> 0], [kind |-> "cp", v |-> 250]>>,
     <<[kind |-> "cp", v |-> 100], [kind |-> "cp", v |-> 0]>>,
     <<[kind |-> "mate", v |-> -1], [kind |-> "cp", v |-> -MaxCp]>>,
     <<[kind |-> "error", v |-> 0], [kind |-> "cp", v |-> 0]>>}

\* the pieces on the squares of a move of the side to move
EvaluateBoards(turn) ==
    {[from_piece |-> [type |-> "QUEEN", color |-> turn],
      to_piece |-> [type |-> "PAWN", color |-> Other(turn)]],
     [from_piece |-> [type |-> "PAWN", color |-> turn], to_piece |-> NoPiece]}

\* nvar is the number of variations the multipv answer holds: 0 (best_move
\* then comes from engine.play) or 1 without a second-best move, 2 with one
EvaluateInputs ==
    {i \in [turn : Colors, l : MoveLines, nvar : 0..2, bi : 1..2, tr : Ranks,
            line : ScoreValues,
            after : ScoreValues \cup {[kind |-> "none", v |-> 0]},
            a : ScorePairs] :
        /\ (i.nvar = 2) <=> (i.l.second # NoMove)
        /\ (i.l.move # i.l.best \/ i.l.second = NoMove) =>
               i.a = <<[kind |-> "cp", v |-> 0], [kind |-> "cp", v |-> 250]>>}

\* eval_diff without the negation for a Black mover
eval_diff_never_negated(turn, best_score, move_score) ==
    IF best_score.some /\ move_score.some THEN move_score.v - best_score.v ELSE 0

\* eval_diff taken as best_score - move_score
eval_diff_best_minus_move(turn, best_score, move_score) ==
    LET d == IF best_score.some /\ move_score.some
             THEN best_score.v - move_score.v ELSE 0
    IN  IF turn = "BLACK" THEN -d ELSE d

\* eval_diff with a score that is None counted as 0
eval_diff_none_as_zero(turn, best_score, move_score) ==
    LET d == move_score.v - best_score.v
    IN  IF turn = "BLACK" THEN -d ELSE d

\* eval_diff of Worker.run and of MoveTypeWorker.run for a mover turn
eval_diff(turn, best_score, move_score) ==
    LET d == IF best_score.some /\ move_score.some
             THEN move_score.v - best_score.v ELSE 0
    IN  IF turn = "BLACK" THEN -d ELSE d

\* the worker has its engine open (Worker: opened by the constructor;
\* MoveTypeWorker: with popen_uci) and holds the move to evaluate
EvaluateOpen ==
    /\ ~cls.done
    /\ cls.run.pc = "none"
    /\ \E who \in {"Worker", "MoveTypeWorker"}, i \in EvaluateInputs :
         cls' = [NoClassification EXCEPT
                   !.who = who,
                   !.b = CHOOSE b \in EvaluateBoards(i.turn) :
                            (i.bi = 1) <=> (b.to_piece # NoPiece),
                   !.move = [id |-> i.l.move, from_rank |-> 1, to_rank |-> i.tr],
                   !.best_move = i.l.best,
                   !.second_best_move = i.l.second,
                   !.aBest = PovScore(Other(i.turn), i.a[1].kind, i.a[1].v),
                   !.aSecond = PovScore(Other(i.turn), i.a[2].kind, i.a[2].v),
                   !.run = [pc |-> "opened", turn |-> i.turn, nvar |-> i.nvar,
                            aLine |-> PovScore(i.turn, i.line.kind, i.line.v),
                            aAfter |-> PovScore(Other(i.turn), i.after.kind, i.after.v),
                            best_score |-> None, move_score |-> None,
                            engines |-> 1]]
    /\ UNCHANGED <<fgVars, queue, aw, mt, bw, ghost>>

\* the multipv request and the request after the move: best_score is the
\* first variation's score (None without variations), move_score the score
\* after the move (None without a score), both White-relative with mates
\* mapped; then eval_diff
EvaluateAnalyse ==
    /\ cls.run.pc = "opened"
    /\ LET best_score == IF cls.run.nvar >= 1
                         THEN Some(score(white(cls.run.aLine), mate_score))
                         ELSE None
           move_score == IF cls.run.aAfter.kind # "none"
                         THEN Some(score(white(cls.run.aAfter), mate_score))
                         ELSE None
       IN  cls' = [cls EXCEPT !.run.pc = "diffed",
                              !.run.best_score = best_score,
                              !.run.move_score = move_score,
                              !.eval_diff = eval_diff(cls.run.turn, best_score, move_score)]
    /\ UNCHANGED <<fgVars, queue, aw, mt, bw, ghost>>

\* categorize_move is entered: without get_move_score requests it returns the
\* label; with them Worker asks its own engine, and MoveTypeWorker starts
\* another engine process for each request while the engine of run is open
EvaluateCategorize ==
    /\ cls.run.pc = "diffed"
    /\ LET n == IF cls.who = "Worker"
                THEN Worker_requests(cls.move, cls.best_move, cls.second_best_move,
                                     cls.aBest)
                ELSE MoveTypeWorker_requests(cls.move, cls.best_move,
                                             cls.second_best_move)
       IN  IF n = 0
           THEN cls' = [cls EXCEPT
                          !.run.pc = "labelled",
                          !.label = categorize(cls.b, cls.move, cls.best_move,
                                               cls.second_best_move, cls.eval_diff, 0, 0)]
           ELSE cls' = [cls EXCEPT
                          !.run.pc = "scoring",
                          !.requests = n,
                          !.run.engines = IF cls.who = "Worker" THEN 1 ELSE 2]
    /\ UNCHANGED <<fgVars, queue, aw, mt, bw, ghost>>

\* the get_move_score requests are over: the label, or in Worker the
\* exception of a failed request, which ends the run
EvaluateScored ==
    /\ cls.run.pc = "scoring"
    /\ LET lbl == IF cls.who = "Worker"
                  THEN Worker_categorize_move(cls.b, cls.move, cls.best_move,
                           cls.second_best_move, cls.eval_diff, cls.aBest, cls.aSecond)
                  ELSE MoveTypeWorker_categorize_move(cls.b, cls.move, cls.best_move,
                           cls.second_best_move, cls.eval_diff, cls.aBest, cls.aSecond)
       IN  cls' = [cls EXCEPT
                     !.run.pc = IF lbl = "Exception" THEN "dead" ELSE "labelled",
                     !.label = lbl,
                     !.run.engines = 1]
    /\ UNCHANGED <<fgVars, queue, aw, mt, bw, ghost>>

\* the label is the result: Worker stores it in the record of the ply and
\* keeps its engine for the next one; MoveTypeWorker emits finished and
\* leaves the with block, which quits its engine
EvaluateEmit ==
    /\ cls.run.pc = "labelled"
    /\ cls' = [cls EXCEPT !.run.pc = "emitted",
                          !.done = TRUE,
                          !.run.engines = IF cls.who = "Worker" THEN 1 ELSE 0]
    /\ UNCHANGED <<fgVars, queue, aw, mt, bw, ghost>>

NextEvaluate ==
    \/ EvaluateOpen
    \/ EvaluateAnalyse
    \/ EvaluateCategorize
    \/ EvaluateScored
    \/ EvaluateEmit

SpecEvaluate == Init /\ [][NextEvaluate]_vars

(***************************************************************************)
(* SpecInteractive: the user only plays moves on the board; no review is   *)
(* started and the window stays open.                                      *)
(***************************************************************************)
NextInteractive ==
    \/ MousePress
    \/ StopMoveTypeWaitReturn
    \/ UpdateAnalysisEnter
    \/ StopTest
    \/ StopQuit
    \/ StopClear
    \/ UpdateAnalysisWaitReturn
    \/ UpdateAnalysisStart
    \/ update_analysis_output
    \/ on_move_type_evaluated
    \/ OnMoveTypeWaitReturn
    \/ AnalysisOpen
    \/ AnalysisLoopHead
    \/ AnalysisCall
    \/ AnalysisReturn
    \/ AnalysisFails
    \/ AnalysisEmit
    \/ AnalysisFinallyTest
    \/ AnalysisFinallyQuit
    \/ AnalysisFinallyClear
    \/ MoveTypeOpen
    \/ MoveTypeEmit
    \/ MoveTypeFails
    \/ MoveTypeClose

SpecInteractive == Init /\ [][NextInteractive]_vars

(***************************************************************************)
(* SpecReview: the user starts reviews and steps through their records;    *)
(* no move is played on the board and the window stays open.               *)
(***************************************************************************)
NextReview ==
    \/ start_analysis
    \/ WorkerParse
    \/ WorkerPly
    \/ WorkerPlyFails
    \/ WorkerFinish
    \/ handle_progress
    \/ analysis_finished
    \/ previous_move
    \/ next_move
    \/ UpdateAnalysisEnter
    \/ StopTest
    \/ StopQuit
    \/ StopClear
    \/ UpdateAnalysisWaitReturn
    \/ UpdateAnalysisStart
    \/ update_analysis_output
    \/ AnalysisOpen
    \/ AnalysisLoopHead
    \/ AnalysisCall
    \/ AnalysisReturn
    \/ AnalysisFails
    \/ AnalysisEmit
    \/ AnalysisFinallyTest
    \/ AnalysisFinallyQuit
    \/ AnalysisFinallyClear

SpecReview == Init /\ [][NextReview]_vars

(***************************************************************************)
(* Properties.                                                             *)
(***************************************************************************)

\* C1: a classification result never sets the move-quality label unless its
\* thread id is the current one: whenever the label shows a classification,
\* that classification's id is current_move_type_thread_id, so the result of
\* a worker superseded by a newer evaluate_current_move never shows.
C1_LabelIsOfCurrentToken ==
    label.src = "classify" => label.token = token

\* C1 witness: the result of a superseded worker was delivered after a newer
\* id became current, and on_move_type_evaluated ignored it; the label then
\* shows the newer classification
C1_StaleResultIgnored ==
    /\ ghost.mt_dropped
    /\ label.src = "classify"
    /\ label.token = token

\* C2 (as claimed): a classification started for a played move never sets the
\* label after the user has navigated to another position: whenever the label
\* shows a classification and the displayed position was reached with
\* previous_move or next_move, the classification is of that position.
C2_LabelIsOfDisplayedPosition ==
    (label.src = "classify" /\ ghost.shown_by = "nav") => label.pos = board

\* C3 (as claimed): no analysis_updated signal computed for another position
\* than that of the current AnalysisWorker reaches update_analysis_output.
C3_NoStaleDepthUpdate ==
    ~ghost.au_stale

\* C4 (as claimed): when the run of the batch Worker has ended, on any path,
\* the engine its constructor opened has been quit.
C4_WorkerEngineClosedOnEveryExit ==
    bw.pc \in {"done", "dead"} => bw.session = "closed"

\* C5 (as claimed): when an engine request fails in the middle of the review
\* and the run ends, finished has been emitted for the foreground.
C5_FailureIsReported ==
    (bw.pc = "dead" /\ bw.k < bw.n) => bw.finished

\* C6 (as claimed): the foreground presents a review as done only when the
\* input was parsed into a game of at least one move.
C6_InvalidGameIsNotSuccess ==
    ghost.presented = "done" => (bw.outcome = "game" /\ bw.n > 0)

\* C7 (as claimed): the foreground is never inside wait() on a worker whose
\* run has not ended.
C7_ForegroundNeverBlocked ==
    /\ ~(fgPc = "ua_wait" /\ aw.pc # "done")
    /\ ~(fgPc = "smt_wait" /\ mt.pc # "done")

\* C8 (as claimed): after a cancel (stop() has cleared is_running) the engine
\* session of the cancelled analysis is still open.
C8_EngineSurvivesCancel ==
    (aw.exists /\ ~aw.is_running /\ aw.session # "none") => aw.session = "open"

\* the label the thresholds of C9 give for |delta| = d
C9_Expected(d, isSecond) ==
    CASE isSecond /\ d \in 0..30 -> "Excellent"
      [] ~(isSecond /\ d \in 0..30) /\ d \in 0..50 -> "Good"
      [] d \in 51..90 -> "Inaccuracy"
      [] d \in 91..300 -> "Mistake"
      [] OTHER -> "Blunder"

\* C9: for a played move that differs from the best move the label is the one
\* the inclusive bounds 30 (second-best move only), 50, 90 and 300 on |delta|
\* give, in both classes.
C9_ThresholdLabels ==
    (cls.done /\ cls.move.id # cls.best_move) =>
        cls.label = C9_Expected(abs(cls.eval_diff),
                                cls.move.id = cls.second_best_move)

\* C9 witness: a second-best move with delta exactly 30 was labelled Excellent
C9_ExcellentAtThirty ==
    /\ cls.done
    /\ cls.move.id # cls.best_move
    /\ cls.move.id = cls.second_best_move
    /\ cls.eval_diff = 30
    /\ cls.label = "Excellent"

\* score_diff as categorize_move computes it for a classified best move
C10_Gap ==
    IF cls.who = "Worker"
    THEN Worker_get_move_score(cls.aBest) - Worker_get_move_score(cls.aSecond)
    ELSE MoveTypeWorker_get_move_score(cls.aBest)
         - MoveTypeWorker_get_move_score(cls.aSecond)

\* the case of C10: the best move was played, a second-best move exists, the
\* requests of get_move_score did not end the run, and score_diff > 200
C10_Case ==
    /\ cls.done
    /\ cls.label # "Exception"
    /\ cls.move.id = cls.best_move
    /\ cls.second_best_move # NoMove
    /\ C10_Gap > 200

\* C10 (as claimed): Great for a sacrifice, Brilliant for a sacrifice that is
\* not intuitive, Best otherwise.
C10_GreatIffSacrifice ==
    C10_Case =>
        cls.label = IF is_sacrifice(cls.b, cls.move)
                    THEN IF is_intuitive(cls.b, cls.move) THEN "Great" ELSE "Brilliant"
                    ELSE "Best"

\* C10 (amended): Best for an intuitive move; for a move that is not
\* intuitive, Brilliant if it is a sacrifice and Great if it is not.
C10_BestIffIntuitive ==
    C10_Case =>
        cls.label = IF is_intuitive(cls.b, cls.move) THEN "Best"
                    ELSE IF is_sacrifice(cls.b, cls.move) THEN "Brilliant"
                    ELSE "Great"

\* C10 witness: a best move that is neither intuitive nor a sacrifice was
\* labelled Great
C10_GreatWithoutSacrifice ==
    /\ C10_Case
    /\ ~is_sacrifice(cls.b, cls.move)
    /\ ~is_intuitive(cls.b, cls.move)
    /\ cls.label = "Great"

\* C11: a played move equal to the best move is labelled Best whenever there
\* is no second-best move or score_diff, as categorize_move computes it, is at
\* most 200, whatever eval_diff is; and a best move is never labelled
\* Excellent, Good, Inaccuracy, Mistake or Blunder.
C11_BestMoveIsBest ==
    (cls.done /\ cls.label # "Exception" /\ cls.move.id = cls.best_move) =>
        /\ (cls.second_best_move = NoMove \/ C10_Gap <= 200) => cls.label = "Best"
        /\ cls.label \notin {"Excellent", "Good", "Inaccuracy", "Mistake", "Blunder"}

\* C11 witness: a best move that is a sacrifice and not intuitive, with a
\* second-best move at a gap of exactly 200 and eval_diff 301, was labelled Best
C11_BestAtGapTwoHundred ==
    /\ cls.done
    /\ cls.move.id = cls.best_move
    /\ cls.second_best_move # NoMove
    /\ C10_Gap = 200
    /\ cls.eval_diff = 301
    /\ is_sacrifice(cls.b, cls.move)
    /\ ~is_intuitive(cls.b, cls.move)
    /\ cls.label = "Best"

\* C12 (as claimed): categorize_move issues no engine request, and a second
\* call with the same board, move, best move, second-best move and eval_diff
\* returns the label of the first.
C12_ClassificationIsPure ==
    cls.done =>
        /\ cls.requests = 0
        /\ cls.again # "" => cls.again = cls.label

\* the White-relative value, mates mapped, of an engine answer
C13_White(ans) == score(white(ans), mate_score)

\* eval_diff has been computed from two scores the engine gave
C13_Case ==
    /\ cls.run.pc \in {"diffed", "scoring", "labelled", "dead", "emitted"}
    /\ cls.run.nvar >= 1
    /\ cls.run.aAfter.kind # "none"

\* C13: the eval_diff handed to categorize_move is the White-relative score
\* after the played move minus the White-relative score of the best line,
\* negated exactly when the mover (the side to move before the move) is
\* Black, in Worker and in MoveTypeWorker alike; so between two centipawn
\* scores it is the same mover-relative difference for both colours.
C13_DeltaNegatedForBlack ==
    C13_Case =>
        /\ cls.run.turn = "WHITE" =>
             cls.eval_diff = C13_White(cls.run.aAfter) - C13_White(cls.run.aLine)
        /\ cls.run.turn = "BLACK" =>
             cls.eval_diff = -(C13_White(cls.run.aAfter) - C13_White(cls.run.aLine))
        /\ (cls.run.aLine.kind = "cp" /\ cls.run.aAfter.kind = "cp") =>
             cls.eval_diff = (-cls.run.aAfter.v) - cls.run.aLine.v

\* C13 witness: MoveTypeWorker evaluated a move of Black after which White
\* stands at +250 where the best line stood at 0: eval_diff is -(250 - 0)
C13_BlackDeltaNegated ==
    /\ cls.done
    /\ cls.who = "MoveTypeWorker"
    /\ cls.run.turn = "BLACK"
    /\ cls.run.nvar >= 1
    /\ cls.run.aLine = PovScore("BLACK", "cp", 0)
    /\ cls.run.aAfter = PovScore("WHITE", "cp", 250)
    /\ cls.eval_diff = -250

\* C14: the records the foreground holds are always in ply order, and
\* analysis_data changes only in the handler of finished, after the run of
\* the Worker has ended; what it then becomes, for a game that was reviewed
\* without failure, is one record per ply of the game: navigation never
\* reads a partial sequence.
C14_CompleteOrderedDelivery ==
    /\ [](\A k \in 1..Len(analysis_data) : analysis_data[k].ply = k)
    /\ [][analysis_data' # analysis_data =>
            /\ fgPc = "idle"
            /\ queue # <<>>
            /\ Head(queue).t = "fin"
            /\ bw.pc = "done"
            /\ bw.outcome = "game" =>
                 /\ Len(analysis_data') = bw.n
                 /\ \A k \in 1..bw.n : analysis_data'[k].ply = k]_vars

\* C14 witness: a review of a game of MaxPlies plies has finished, its
\* MaxPlies records were handed over, and the user has stepped to one
C14_AllRecordsDelivered ==
    /\ bw.pc = "done"
    /\ bw.outcome = "game"
    /\ bw.n = MaxPlies
    /\ Len(analysis_data) = MaxPlies
    /\ ghost.shown_by = "nav"

\* the step appends an analysis_updated signal to the foreground's queue
C15_Emits ==
    /\ Len(queue') = Len(queue) + 1
    /\ queue'[Len(queue')].t = "au"

\* the statements of AnalysisWorker.run after its loop
C15_AfterLoop == {"finally", "fin_quit", "fin_clear", "done"}

\* C15: an AnalysisWorker emits its updates for the depths 1, 2, 3, ... one
\* after the other: each update is for current_depth, between 1 and the
\* maximum depth, current_depth advances by one with each update and only
\* then; a failed request and a cancellation seen at the loop head leave the
\* loop, and after the loop no update is emitted.
C15_DepthsInOrder ==
    /\ [](aw.exists => aw.depth \in 1..(MaxDepth + 1))
    /\ [][/\ C15_Emits =>
               /\ aw.pc = "emit"
               /\ queue'[Len(queue')].a = aw.pos
               /\ queue'[Len(queue')].b = aw.depth
               /\ aw.depth \in 1..MaxDepth
               /\ aw'.depth = aw.depth + 1
          /\ (aw.exists /\ aw'.exists /\ aw'.pc # "ready" /\ aw'.depth # aw.depth) =>
               C15_Emits
          /\ (aw.pc = "inflight" /\ aw'.pc \notin {"inflight", "emit", "ready"}) =>
               aw'.pc = "finally"
          /\ (aw.pc = "head" /\ ~aw.is_running /\ aw'.pc \notin {"head", "ready"}) =>
               aw'.pc = "finally"
          /\ (aw.pc \in C15_AfterLoop /\ aw'.exists /\ aw'.pc # "ready") =>
               /\ ~C15_Emits
               /\ aw'.pc \in C15_AfterLoop]_vars

\* C15 witness: an AnalysisWorker has emitted every depth up to the maximum
\* and ended, and the last update is the one displayed
C15_AllDepthsEmitted ==
    /\ aw.exists
    /\ aw.pc = "done"
    /\ aw.is_running
    /\ aw.depth = MaxDepth + 1
    /\ analysis_output = [pos |-> aw.pos, depth |-> MaxDepth]

\* the value for the mover, mates mapped, of the engine's answer for the
\* position after a move
C16_ForMover(ans) ==
    IF cls.run.turn = "WHITE" THEN C13_White(ans) ELSE -C13_White(ans)

\* the best move was played and labelled, a second-best move exists, and
\* get_move_score obtained a score for both; the move is not intuitive, so
\* that the label tells whether the Great/Brilliant branch was entered
C16_Case ==
    /\ cls.run.pc \in {"labelled", "emitted"}
    /\ cls.move.id = cls.best_move
    /\ cls.second_best_move # NoMove
    /\ cls.aBest.kind \in {"cp", "mate"}
    /\ cls.aSecond.kind \in {"cp", "mate"}
    /\ ~is_intuitive(cls.b, cls.move)

\* C16 (as claimed): the Great/Brilliant branch is entered exactly when the
\* best move is more than 200 better for the mover than the second-best
\* move, whether the mover is White or Black.
C16_GapIsForTheMover ==
    C16_Case =>
        ((cls.label \in {"Great", "Brilliant"})
            <=> (C16_ForMover(cls.aBest) - C16_ForMover(cls.aSecond) > 200))

\* C17 (as claimed): when a request of an AnalysisWorker that was not
\* cancelled has failed and its run has ended, the foreground, once it has
\* handled every signal of that worker, does not still display an evaluation
\* of the worker's position: it displays the error outcome instead.
C17_FailureIsDisplayed ==
    (/\ aw.exists
     /\ aw.pc = "done"
     /\ aw.is_running
     /\ aw.depth <= MaxDepth
     /\ queue = <<>>)
        => ~(analysis_output.pos = aw.pos /\ analysis_output.depth >= 1)

\* C18 (as claimed): while a move is evaluated, the worker evaluating it has
\* at most one engine process running.
C18_OneEnginePerWorker ==
    cls.run.engines <= 1

\* the answer is a mate, and it is White who mates (a mate in 0 moves: the
\* side to move is mated)
C19_MateForWhite(ans) ==
    /\ ans.kind = "mate"
    /\ \/ ans.turn = "WHITE" /\ ans.v > 0
       \/ ans.turn = "BLACK" /\ ans.v <= 0

\* a value w computed for the answer ans is, when ans is a mate, within
\* MaxMate of 100000 in magnitude, above every centipawn score, and of the
\* sign of the side that mates
C19_Mapped(ans, w) ==
    ans.kind = "mate" =>
        /\ abs(w) \in (mate_score - MaxMate)..mate_score
        /\ abs(w) > MaxCp
        /\ C19_MateForWhite(ans) <=> w > 0

\* best_score and move_score have been computed from two answers
C19_Case ==
    /\ cls.run.pc \in {"diffed", "scoring", "labelled", "dead", "emitted"}
    /\ cls.run.nvar >= 1
    /\ cls.run.aAfter.kind # "none"

\* C19: the scores eval_diff is computed from are finite White-relative
\* values in which a mate has a magnitude within MaxMate of 100000, above
\* every centipawn score, positive when White mates and negative when Black
\* mates; so the mating side stands better than with any centipawn score,
\* and eval_diff between a mate and a centipawn score exceeds 300 in
\* magnitude.
C19_MateDominates ==
    C19_Case =>
        /\ C19_Mapped(cls.run.aLine, cls.run.best_score.v)
        /\ C19_Mapped(cls.run.aAfter, cls.run.move_score.v)
        /\ (cls.run.aLine.kind = "mate" /\ cls.run.aAfter.kind = "cp") =>
             /\ C19_MateForWhite(cls.run.aLine) <=>
                    cls.run.best_score.v > cls.run.move_score.v
             /\ abs(cls.eval_diff) > 300
        /\ (cls.run.aLine.kind = "cp" /\ cls.run.aAfter.kind = "mate") =>
             /\ C19_MateForWhite(cls.run.aAfter) <=>
                    cls.run.move_score.v > cls.run.best_score.v
             /\ abs(cls.eval_diff) > 300

\* C19 witness: Black's best line mated in MaxMate moves, the move played
\* (not the best one) left a centipawn score of MaxCp for White, and the
\* move was labelled Blunder
C19_MateAgainstCentipawns ==
    /\ cls.done
    /\ cls.run.turn = "BLACK"
    /\ cls.run.nvar >= 1
    /\ cls.run.aLine = PovScore("BLACK", "mate", MaxMate)
    /\ cls.run.aAfter = PovScore("WHITE", "cp", MaxCp)
    /\ cls.run.best_score.v = (-mate_score) + MaxMate
    /\ cls.eval_diff = -(MaxCp - ((-mate_score) + MaxMate))
    /\ cls.label = "Blunder"

\* the value for the mover, mates mapped, of a White-relative score
C20_ForMover(w) == IF cls.run.turn = "WHITE" THEN w ELSE -w

\* eval_diff has been computed from two scores, and the score after the
\* played move is worse for the mover than the score of the best line
C20_Worse ==
    /\ cls.run.pc \in {"diffed", "scoring", "labelled", "dead", "emitted"}
    /\ cls.run.best_score.some
    /\ cls.run.move_score.some
    /\ C20_ForMover(cls.run.move_score.v) < C20_ForMover(cls.run.best_score.v)

\* C20 (as claimed): eval_diff is positive whenever the played move's score
\* is worse for the mover than the best line's score.
C20_WorseIsPositive ==
    C20_Worse => cls.eval_diff > 0

\* C20 (amended): eval_diff is negative whenever the played move's score is
\* worse for the mover than the best line's score, for a White and for a
\* Black mover alike: it is the mover's gain, not the mover's loss.
C20_WorseIsNegative ==
    C20_Worse =>
        cls.eval_diff = C20_ForMover(cls.run.move_score.v)
                          - C20_ForMover(cls.run.best_score.v)
        /\ cls.eval_diff < 0

\* C20 witness: a move of White that left 250 less for White than the best
\* line has eval_diff -250 and is labelled Mistake
C20_WhiteLossIsNegative ==
    /\ cls.done
    /\ C20_Worse
    /\ cls.run.turn = "WHITE"
    /\ cls.run.best_score.v = 250
    /\ cls.run.move_score.v = 0
    /\ cls.eval_diff = -250
    /\ cls.label = "Mistake"

\* the piece values the claim C21 lists
C21_Value(t) ==
    CASE t = "PAWN" -> 1
      [] t \in {"KNIGHT", "BISHOP"} -> 3
      [] t = "ROOK" -> 5
      [] t = "QUEEN" -> 9
      [] OTHER -> 0

\* what C21 says is_sacrifice is for a board: a piece on the destination
\* square, of strictly smaller value than the moving piece
C21_Expected(b) ==
    /\ b.from_piece # NoPiece
    /\ b.to_piece # NoPiece
    /\ C21_Value(b.from_piece.type) > C21_Value(b.to_piece.type)

\* C21: is_sacrifice is true exactly when the destination square holds a
\* piece whose value is strictly below the moving piece's, whatever the
\* colours and the ranks; never for a move to an empty square; and it is
\* what decides between Brilliant and Great for a best move that is not
\* intuitive in the gap branch.
C21_SacrificeByPieceValues ==
    cls.done =>
        /\ is_sacrifice(cls.b, cls.move) <=> C21_Expected(cls.b)
        /\ cls.b.to_piece = NoPiece => ~is_sacrifice(cls.b, cls.move)
        /\ (C10_Case /\ ~is_intuitive(cls.b, cls.move)) =>
             cls.label = IF C21_Expected(cls.b) THEN "Brilliant" ELSE "Great"

\* C21 witness: a knight taking a bishop (equal values) as the best move, not
\* intuitive, in the gap branch, is no sacrifice and was labelled Great
C21_EqualValuesNoSacrifice ==
    /\ C10_Case
    /\ cls.b.from_piece.type = "KNIGHT"
    /\ cls.b.to_piece.type = "BISHOP"
    /\ ~is_intuitive(cls.b, cls.move)
    /\ ~is_sacrifice(cls.b, cls.move)
    /\ cls.label = "Great"

\* C22 (as claimed): however stop() on the foreground thread and the finally
\* block of run on the worker thread interleave, the engine of an
\* AnalysisWorker is quit at most once, and neither thread calls quit() on
\* self.engine after the other has set it to None (the AttributeError that
\* ends run, or the foreground's handler).
C22_EngineQuitOnce ==
    /\ aw.quits <= 1
    /\ ~aw.raised
    /\ fgPc # "crashed"

\* C23: an AnalysisWorker is created and started only when there is no
\* earlier one or the run of the earlier one has ended: at no time are two
\* of them running.
C23_OneAnalysisWorker ==
    [][(aw' # aw /\ aw'.exists /\ aw'.pc = "ready" /\ aw'.is_running) =>
          (~aw.exists \/ aw.pc = "done")]_vars

\* C23 witness: after a move played on the board and a navigation step, each
\* of which replaced the AnalysisWorker, the newest one is inside a request
\* for the displayed position
C23_WorkerReplacedTwice ==
    /\ nMoves >= 1
    /\ ghost.shown_by = "nav"
    /\ fgPc = "idle"
    /\ aw.exists
    /\ aw.pos = board
    /\ aw.pc = "inflight"

\* the step shows a record: update_display run by analysis_finished,
\* previous_move or next_move
C24_Displays ==
    /\ fgPc = "idle"
    /\ fgPc' = "ua"
    /\ fgCtx' \in {"nav", "finished"}

\* C24: current_move_index is 0 while analysis_data is empty and otherwise
\* the index of one of its records; it changes only to 0 when a review
\* finishes, down by one from an index above 0, or up by one from an index
\* below the last, the records staying the same; and update_display always
\* finds the record at current_move_index.
C24_IndexInRange ==
    /\ [](IF analysis_data = <<>>
          THEN current_move_index = 0
          ELSE current_move_index \in 0..(Len(analysis_data) - 1))
    /\ [][current_move_index' # current_move_index =>
            \/ /\ current_move_index' = 0
               /\ queue # <<>>
               /\ Head(queue).t = "fin"
            \/ /\ current_move_index > 0
               /\ current_move_index' = current_move_index - 1
               /\ analysis_data' = analysis_data
            \/ /\ current_move_index < Len(analysis_data) - 1
               /\ current_move_index' = current_move_index + 1
               /\ analysis_data' = analysis_data]_vars
    /\ [][C24_Displays =>
            /\ analysis_data' # <<>>
            /\ current_move_index' \in 0..(Len(analysis_data') - 1)
            /\ board' = analysis_data'[current_move_index' + 1].ply]_vars

\* C24 witness: the user has stepped to the last record of a review of at
\* least two plies and can step again
C24_AtLastRecord ==
    /\ fgPc = "idle"
    /\ nUser < MaxUser
    /\ Len(analysis_data) >= 2
    /\ current_move_index = Len(analysis_data) - 1
    /\ ghost.shown_by = "nav"
    /\ board = analysis_data[current_move_index + 1].ply

\* the label the other class computes for the move that was evaluated, from
\* the same board, lines and engine answers
C25_LabelOfOtherClass ==
    LET d == eval_diff(cls.run.turn,
                 IF cls.run.nvar >= 1
                 THEN Some(score(white(cls.run.aLine), mate_score)) ELSE None,
                 IF cls.run.aAfter.kind # "none"
                 THEN Some(score(white(cls.run.aAfter), mate_score)) ELSE None)
    IN  IF cls.who = "Worker"
        THEN MoveTypeWorker_categorize_move(cls.b, cls.move, cls.best_move,
                 cls.second_best_move, d, cls.aBest, cls.aSecond)
        ELSE Worker_categorize_move(cls.b, cls.move, cls.best_move,
                 cls.second_best_move, d, cls.aBest, cls.aSecond)

\* C25: when no engine request failed, the label one class produced for a
\* move is the label the other class produces for it from the same position
\* and engine answers.
C25_SameClassifier ==
    (/\ cls.run.pc = "emitted"
     /\ cls.aBest.kind # "error"
     /\ cls.aSecond.kind # "error")
        => cls.label = C25_LabelOfOtherClass

\* C25 witness: MoveTypeWorker labelled a best move of Black Brilliant, from
\* get_move_score answers that Worker labels Brilliant as well
C25_BothBrilliant ==
    /\ cls.run.pc = "emitted"
    /\ cls.who = "MoveTypeWorker"
    /\ cls.run.turn = "BLACK"
    /\ cls.aBest.kind = "cp"
    /\ cls.aSecond.kind = "cp"
    /\ cls.label = "Brilliant"
    /\ C25_LabelOfOtherClass = "Brilliant"

\* the move has been labelled and the multipv answer held no variation
\* (best_score is None) or the answer after the move held no score
\* (move_score is None)
C26_Case ==
    /\ cls.run.pc \in {"labelled", "emitted"}
    /\ cls.run.nvar = 0 \/ cls.run.aAfter.kind = "none"

\* C26: when best_score or move_score is None, eval_diff is 0; a played move
\* that is not the best move is then labelled Excellent if it is the
\* second-best move and Good otherwise, and its evaluation does not end in
\* an exception.
C26_UnavailableScoreIsZeroDelta ==
    /\ C26_Case =>
         /\ ~cls.run.best_score.some \/ ~cls.run.move_score.some
         /\ cls.eval_diff = 0
         /\ cls.move.id # cls.best_move =>
              cls.label = IF cls.move.id = cls.second_best_move
                          THEN "Excellent" ELSE "Good"
    /\ (/\ cls.run.pc = "dead"
        /\ cls.run.nvar = 0 \/ cls.run.aAfter.kind = "none")
         => cls.move.id = cls.best_move

\* C26 witness: the engine gave no variation, the position after the played
\* move scores MaxCp for the mover's opponent, and the move, not the one
\* engine.play returned, was labelled Good
C26_GoodWithoutBestScore ==
    /\ cls.run.pc = "emitted"
    /\ cls.run.nvar = 0
    /\ cls.run.aAfter.kind = "cp"
    /\ cls.run.aAfter.v = MaxCp
    /\ cls.move.id # cls.best_move
    /\ cls.eval_diff = 0
    /\ cls.label = "Good"

====
